---------------------------- MODULE Spec2Model ----------------------------
(***************************************************************************)
(* DVR status dashboard: the liveness-resolution subsystem.                *)
(*   src/check_online.py  resolve_p2psrv, is_online, _normalize_serial      *)
(*   src/server.py        DataStore (records, online_map, last_scan_epoch), *)
(*                        _scanner_loop, the /api handlers                  *)
(* Python strings are sequences of one-character strings; Python's None    *)
(* for an Optional is the empty sequence and a present value v is <<v>>.    *)
(***************************************************************************)
EXTENDS Integers, Sequences, FiniteSets, TLC

\* ------------------------------------------------------------------ bounds
\* longest US string the directory answers with
MaxUSLen == 3
\* width of the scan's worker pool (max_workers) in the model
MaxWorkers == 1
\* the wall clock stops advancing once it reads MaxClock
MaxClock == 2
\* the longest string handed to one _normalize_serial call
MaxSerialLen == 5

\* ----------------------------------------------------------------- strings
None == << >>
Some(v) == << v >>

\* the characters str.strip() removes (of the model's alphabet)
IsSpace(c) == c = " "

RECURSIVE LStrip(_)
LStrip(s) == IF s # << >> /\ IsSpace(Head(s)) THEN LStrip(Tail(s)) ELSE s

RECURSIVE RStrip(_)
RStrip(s) ==
    IF s # << >> /\ IsSpace(s[Len(s)]) THEN RStrip(SubSeq(s, 1, Len(s) - 1)) ELSE s

\* str.strip()
Strip(s) == RStrip(LStrip(s))

LowerChar(c) ==
    CASE c = "N" -> "n"
      [] c = "A" -> "a"
      [] OTHER -> c

\* str.lower()
Lower(s) == [i \in 1..Len(s) |-> LowerChar(s[i])]

\* str.endswith(suffix)
EndsWith(s, suffix) ==
    /\ Len(s) >= Len(suffix)
    /\ SubSeq(s, Len(s) - Len(suffix) + 1, Len(s)) = suffix

\* c in s
Contains(s, c) == \E i \in 1..Len(s) : s[i] = c

\* s.split(c, 1) of a string that contains c: the parts around the first c
SplitOnce(s, c) ==
    LET i == CHOOSE k \in 1..Len(s) : s[k] = c /\ \A j \in 1..(k - 1) : s[j] # c
    IN  << SubSeq(s, 1, i - 1), SubSeq(s, i + 1, Len(s)) >>

Digits == {"0", "1", "2", "3", "4", "5", "6", "7", "8", "9"}

DigitVal(c) ==
    CASE c = "0" -> 0 [] c = "1" -> 1 [] c = "2" -> 2 [] c = "3" -> 3
      [] c = "4" -> 4 [] c = "5" -> 5 [] c = "6" -> 6 [] c = "7" -> 7
      [] c = "8" -> 8 [] c = "9" -> 9

\* whether int(s) accepts the string: blanks around, one optional sign, digits
IsIntLiteral(s) ==
    LET t == Strip(s)
        u == IF t # << >> /\ Head(t) \in {"+", "-"} THEN Tail(t) ELSE t
    IN  u # << >> /\ \A i \in 1..Len(u) : u[i] \in Digits

RECURSIVE DigitsVal(_)
DigitsVal(u) ==
    IF u = << >> THEN 0
    ELSE 10 * DigitsVal(SubSeq(u, 1, Len(u) - 1)) + DigitVal(u[Len(u)])

\* int(s) of a string int() accepts
IntOf(s) ==
    LET t == Strip(s)
    IN  IF Head(t) = "-" THEN 0 - DigitsVal(Tail(t))
        ELSE IF Head(t) = "+" THEN DigitsVal(Tail(t))
        ELSE DigitsVal(t)

\* every string over chars of length at most n
StringsUpTo(chars, n) == UNION {[1..k -> chars] : k \in 0..n}

\* ----------------------------------------------------------- Python values
PyNone == [t |-> "none"]
PyStr(s) == [t |-> "str", s |-> s]
PyInt(n) == [t |-> "int", n |-> n]
\* the float n.0 of a whole number n >= 0, and float("nan")
PyFloat(n) == [t |-> "float", nan |-> FALSE, n |-> n]
PyNaN == [t |-> "float", nan |-> TRUE, n |-> 0]
PyDict(d) == [t |-> "dict", d |-> d]
EmptyDict == PyDict(<< >>)

\* bool(v)
Truthy(v) ==
    CASE v.t = "none" -> FALSE
      [] v.t = "str" -> v.s # << >>
      [] v.t = "int" -> v.n # 0
      [] v.t = "float" -> v.nan \/ v.n # 0
      [] v.t = "dict" -> DOMAIN v.d # {}

\* v.get(key, default) of a dict v
DictGet(v, key, default) == IF key \in DOMAIN v.d THEN v.d[key] ELSE default

\* ------------------------------------------------- check_online.resolve_p2psrv
\* lines 17-29: what resolve_p2psrv makes of the directory's response res
resolve_p2psrv(res) ==
    IF res.code >= 400 \/ ~Truthy(res.data) THEN None
    ELSE
      LET body == IF res.data.t = "dict" THEN DictGet(res.data, "body", EmptyDict)
                  ELSE EmptyDict
          us == IF body.t = "dict" THEN DictGet(body, "US", PyNone) ELSE PyNone
      IN  IF us.t # "str" THEN None
          ELSE IF Strip(us.s) = << >> \/ ~Contains(us.s, ":") THEN None
          ELSE LET parts == SplitOnce(us.s, ":")
               IN  IF IsIntLiteral(parts[2]) THEN Some(<< parts[1], IntOf(parts[2]) >>)
                   ELSE None


\* faulty variant of probe_verdict: one good status code is enough
probe_verdict_either_code(res_probe, res_info) ==
    IF res_probe.code >= 400 /\ res_info.code >= 400 THEN FALSE
    ELSE Truthy(res_info.data)

\* lines 47-50: the verdict once both relay responses are read
probe_verdict(res_probe, res_info) ==
    IF res_probe.code >= 400 \/ res_info.code >= 400 THEN FALSE
    ELSE Truthy(res_info.data)

\* lines 32-53 as a function of what the three reads bring: a response <<r>>, or
\* None when the transport raises there (the except clause returns False)
is_online(dir, probe, info) ==
    IF dir = None THEN FALSE
    ELSE IF resolve_p2psrv(dir[1]) = None THEN FALSE
    ELSE IF probe = None \/ info = None THEN FALSE
    ELSE probe_verdict(probe[1], info[1])

\* ------------------------------------------- check_online._normalize_serial
DigitChar(d) ==
    CASE d = 0 -> "0" [] d = 1 -> "1" [] d = 2 -> "2" [] d = 3 -> "3"
      [] d = 4 -> "4" [] d = 5 -> "5" [] d = 6 -> "6" [] d = 7 -> "7"
      [] d = 8 -> "8" [] d = 9 -> "9"

RECURSIVE NatToStr(_)
NatToStr(n) ==
    IF n < 10 THEN << DigitChar(n) >>
    ELSE NatToStr(n \div 10) \o << DigitChar(n % 10) >>

\* str(v) of a value that is not None
PyStrOf(v) ==
    CASE v.t = "str" -> v.s
      [] v.t = "int" -> NatToStr(v.n)
      [] v.t = "float" -> IF v.nan THEN << "n", "a", "n" >>
                          ELSE NatToStr(v.n) \o << ".", "0" >>

\* faulty variant of normalize_serial: "nan" is matched in lower case only
normalize_serial_case_sensitive(value) ==
    IF value.t = "none" THEN << >>
    ELSE IF value.t = "float" /\ value.nan THEN << >>
    ELSE LET s == Strip(PyStrOf(value))
         IN  IF s = << "n", "a", "n" >> THEN << >>
             ELSE IF EndsWith(s, << ".", "0" >>) THEN SubSeq(s, 1, Len(s) - 2)
             ELSE s

\* faulty variant of normalize_serial: the text is not stripped
normalize_serial_no_strip(value) ==
    IF value.t = "none" THEN << >>
    ELSE IF value.t = "float" /\ value.nan THEN << >>
    ELSE LET s == PyStrOf(value)
         IN  IF Lower(s) = << "n", "a", "n" >> THEN << >>
             ELSE IF EndsWith(s, << ".", "0" >>) THEN SubSeq(s, 1, Len(s) - 2)
             ELSE s

\* lines 56-71
normalize_serial(value) ==
    IF value.t = "none" THEN << >>
    ELSE IF value.t = "float" /\ value.nan THEN << >>
    ELSE LET s == Strip(PyStrOf(value))
         IN  IF Lower(s) = << "n", "a", "n" >> THEN << >>
             ELSE IF EndsWith(s, << ".", "0" >>) THEN SubSeq(s, 1, Len(s) - 2)
             ELSE s

\* ------------------------------------------------------------------- state
VARIABLES
    rows,             \* DataStore.rows: the served records
    df,               \* DataStore.df: the table that update_p2p persists
    excel,            \* the rows of the file at excel_path
    online_map,       \* DataStore.online_map: serial -> bool
    last_scan_epoch,  \* DataStore.last_scan_epoch: None or <<time>>
    now,              \* what time.time() reads
    scan,             \* per scanning thread: the locals of its scan_statuses call
    bg_pc,            \* where the scanner_loop thread is in _scanner_loop
    api_pc,           \* where the /api/refresh request is in api_refresh
    lock,             \* DataStore.lock: None or <<the thread that holds it>>
    io,               \* the locals of one is_online call run on its own
    nz                \* the locals of one _normalize_serial call run on its own

storeVars == << rows, df, excel, online_map, last_scan_epoch, now, scan, bg_pc, api_pc, lock >>
vars == << rows, df, excel, online_map, last_scan_epoch, now, scan, bg_pc, api_pc, lock, io, nz >>

\* ------------------------------------------------------------- dict helpers
EmptyMap == [s \in {} |-> FALSE]

\* m.get(k, default)
MapGet(m, k, default) == IF k \in DOMAIN m THEN m[k] ELSE default

\* m[k] = v
MapPut(m, k, v) == [x \in DOMAIN m \cup {k} |-> IF x = k THEN v ELSE m[x]]

\* m.pop(k, None)
MapPop(m, k) == [x \in DOMAIN m \ {k} |-> m[x]]

\* ---------------------------------------------------- server.DataStore reads
\* faulty variant of is_online_row: a serial the map lacks reads as online
is_online_row_default_true(r, m) == r.p2p # << >> /\ MapGet(m, r.p2p, TRUE)

\* lines 86, 100-102, 123: whether a record is served as online
is_online_row(r, m) == r.p2p # << >> /\ MapGet(m, r.p2p, FALSE)

\* lines 82-90: the loop's count of the records served as online
RECURSIVE count_online(_, _)
count_online(rs, m) ==
    IF rs = << >> THEN 0
    ELSE (IF is_online_row(Head(rs), m) THEN 1 ELSE 0) + count_online(Tail(rs), m)

\* faulty variant of count_offline: a record without a serial is counted nowhere
RECURSIVE count_offline_skips_empty(_, _)
count_offline_skips_empty(rs, m) ==
    IF rs = << >> THEN 0
    ELSE (IF Head(rs).p2p = << >> \/ is_online_row(Head(rs), m) THEN 0 ELSE 1)
         + count_offline_skips_empty(Tail(rs), m)

\* lines 82-90: the loop's count of the records served as offline
RECURSIVE count_offline(_, _)
count_offline(rs, m) ==
    IF rs = << >> THEN 0
    ELSE (IF is_online_row(Head(rs), m) THEN 0 ELSE 1) + count_offline(Tail(rs), m)

\* lines 79-96
get_stats ==
    [total |-> Len(rows),
     online |-> count_online(rows, online_map),
     offline |-> count_offline(rows, online_map),
     lastUpdated |-> last_scan_epoch]

IsOnlineRowNow(r) == is_online_row(r, online_map)
IsOfflineRowNow(r) == ~is_online_row(r, online_map)

\* lines 98-110, for the three statuses the routes accept
list_by_status(status) ==
    CASE status = "all" -> rows
      [] status = "online" -> SelectSeq(rows, IsOnlineRowNow)
      [] status = "offline" -> SelectSeq(rows, IsOfflineRowNow)

\* --------------------------------------------------- server.DataStore.load_excel
\* the table of P2P1.xlsx as pandas reads it
InitialTable ==
    << [p2p |-> PyFloat(1), site |-> << "A" >>, store |-> "X"],
       [p2p |-> PyNaN, site |-> << "B" >>, store |-> "Y"],
       [p2p |-> PyStr(<< " " >>), site |-> << " ", "B" >>, store |-> "Z"] >>

\* lines 43-55: the serial column normalized, the other two kept
load_excel(table) ==
    [i \in 1..Len(table) |->
        [p2p |-> normalize_serial(table[i].p2p),
         site |-> table[i].site,
         store |-> table[i].store]]

\* ----------------------------------------------- server.DataStore.scan_statuses
Scanners == {"bg", "api"}

\* the locals of a scan_statuses call; a call that has returned or raised has none
ScanAt(pc) ==
    [pc |-> pc, unique_serials |-> {}, futures |-> EmptyMap, online_map |-> EmptyMap]

IdleScan == ScanAt("idle")

\* faulty variant of unique_serials_of: serials the cache holds as online are
\* not scanned again
unique_serials_unknown_only(rs) ==
    {rs[i].p2p : i \in {j \in 1..Len(rs) :
        rs[j].p2p # << >> /\ ~MapGet(online_map, rs[j].p2p, FALSE)}}

\* lines 60-64: the unique non-empty serials of the records
unique_serials_of(rs) == {rs[i].p2p : i \in {j \in 1..Len(rs) : rs[j].p2p # << >>}}

\* line 24: an RLock is to be had when no other thread holds it
LockFree(t) == lock = None \/ lock = Some(t)

\* faulty variant of lock_during_pool: the with block spans the whole scan
lock_during_pool_held(t) == Some(t)

\* lines 58-65: the with block ends, and the lock is released, before the pool
lock_during_pool(t) == None

\* lines 58-66: the snapshot under the lock; an empty snapshot skips the pool
scan_begin(t) ==
    /\ scan[t].pc = "idle"
    /\ LockFree(t)
    /\ LET u == unique_serials_of(rows)
       IN  scan' = [scan EXCEPT ![t] =
                [pc |-> IF u = {} THEN "collect" ELSE "pool",
                 unique_serials |-> u, futures |-> EmptyMap,
                 online_map |-> EmptyMap]]
    /\ lock' = lock_during_pool(t)
    /\ UNCHANGED << rows, df, excel, online_map, last_scan_epoch, now >>

\* lines 67-68: the executor is built and every serial submitted
scan_submit(t) ==
    /\ scan[t].pc = "pool"
    /\ scan' = [scan EXCEPT ![t].pc = "collect",
                            ![t].futures = [s \in scan[t].unique_serials |-> "queued"]]
    /\ UNCHANGED << rows, df, excel, online_map, last_scan_epoch, now, bg_pc, api_pc, lock, io, nz >>

\* line 67: the executor cannot start (no thread to be had): scan_statuses raises
scan_pool_error(t) ==
    /\ scan[t].pc = "pool"
    /\ scan' = [scan EXCEPT ![t] = ScanAt("raised")]
    /\ UNCHANGED << rows, df, excel, online_map, last_scan_epoch, now, bg_pc, api_pc, lock, io, nz >>

Running(t) == {s \in DOMAIN scan[t].futures : scan[t].futures[s] = "running"}

\* faulty variant of worker_start: a call starts however many are running
worker_start_unbounded(t, s) ==
    /\ scan[t].pc = "collect"
    /\ s \in DOMAIN scan[t].futures
    /\ scan[t].futures[s] = "queued"
    /\ scan' = [scan EXCEPT ![t].futures[s] = "running"]
    /\ UNCHANGED << rows, df, excel, online_map, last_scan_epoch, now, bg_pc, api_pc, lock, io, nz >>

\* a pool thread takes a queued call; at most max_workers run at a time
worker_start(t, s) ==
    /\ scan[t].pc = "collect"
    /\ s \in DOMAIN scan[t].futures
    /\ scan[t].futures[s] = "queued"
    /\ Cardinality(Running(t)) < MaxWorkers
    /\ scan' = [scan EXCEPT ![t].futures[s] = "running"]
    /\ UNCHANGED << rows, df, excel, online_map, last_scan_epoch, now, bg_pc, api_pc, lock, io, nz >>

\* a future is "queued", "running", or done: "returned" or "raised"
\* lines 69-72: the call returned b and as_completed hands it to the loop
collect_result(m, s, b) == MapPut(m, s, b)

\* faulty variant of collect_exception: the failed serial is left out of the map
collect_exception_drops(m, s) == m

\* lines 73-74: the future holds an exception
collect_exception(m, s) == MapPut(m, s, FALSE)

\* the three reads of one is_online call, each a response or a transport error
DirOutcomes ==
    { None,
      Some([code |-> 404, data |-> PyNone]),
      Some([code |-> 200,
            data |-> PyDict([k \in {"body"} |->
                        PyDict([j \in {"US"} |-> PyStr(<< "h", ":", "8" >>)])])]) }

RelayOutcomes ==
    { None,
      Some([code |-> 500, data |-> PyNone]),
      Some([code |-> 200, data |-> PyNone]),
      Some([code |-> 200, data |-> PyDict([k \in {"body"} |-> PyInt(1)])]) }

\* faulty variant of worker_return: the result is written straight into the cache
worker_return_into_cache(t, s) ==
    /\ scan[t].pc = "collect"
    /\ s \in DOMAIN scan[t].futures
    /\ scan[t].futures[s] = "running"
    /\ \E b \in BOOLEAN :
         /\ scan' = [scan EXCEPT ![t].futures[s] = "returned",
                                 ![t].online_map = MapPut(scan[t].online_map, s, b)]
         /\ online_map' = MapPut(online_map, s, b)
    /\ UNCHANGED << rows, df, excel, last_scan_epoch, now, bg_pc, api_pc, lock, io, nz >>

\* what is_online returns over those reads
IsOnlineResults ==
    {is_online(d, p, i) : d \in DirOutcomes, p \in RelayOutcomes, i \in RelayOutcomes}

worker_return(t, s) ==
    /\ scan[t].pc = "collect"
    /\ s \in DOMAIN scan[t].futures
    /\ scan[t].futures[s] = "running"
    /\ \E b \in IsOnlineResults :
         scan' = [scan EXCEPT ![t].futures[s] = "returned",
                              ![t].online_map = collect_result(scan[t].online_map, s, b)]
    /\ UNCHANGED << rows, df, excel, online_map, last_scan_epoch, now, bg_pc, api_pc, lock, io, nz >>

\* an exception escapes the submitted call and the future re-raises it
worker_raise(t, s) ==
    /\ scan[t].pc = "collect"
    /\ s \in DOMAIN scan[t].futures
    /\ scan[t].futures[s] = "running"
    /\ scan' = [scan EXCEPT ![t].futures[s] = "raised",
                            ![t].online_map = collect_exception(scan[t].online_map, s)]
    /\ UNCHANGED << rows, df, excel, online_map, last_scan_epoch, now, bg_pc, api_pc, lock, io, nz >>

\* as_completed has handed over every future
AllCollected(t) ==
    \A s \in DOMAIN scan[t].futures : scan[t].futures[s] \in {"returned", "raised"}

\* faulty variant of publish: the scan's entries are merged into the cache's map
publish_merge(old, new) ==
    [x \in DOMAIN old \cup DOMAIN new |-> IF x \in DOMAIN new THEN new[x] ELSE old[x]]

\* line 76: what the commit stores, from the cache's map and the scan's own
publish(old, new) == new

\* line 77: time.time(), and the clock moving on
tick(n) == IF n < MaxClock THEN n + 1 ELSE n

\* lines 75-77: the commit under the lock
scan_commit(t) ==
    /\ scan[t].pc = "collect"
    /\ AllCollected(t)
    /\ LockFree(t)
    /\ online_map' = publish(online_map, scan[t].online_map)
    /\ last_scan_epoch' = Some(now)
    /\ now' = tick(now)
    /\ scan' = [scan EXCEPT ![t] = ScanAt("done")]
    /\ lock' = lock
    /\ UNCHANGED << rows, df, excel, bg_pc, api_pc, io, nz >>

\* -------------------------------------------------- server.DataStore.update_p2p
\* line 134 (and line 142): the rows whose trimmed site is site_str
site_mask(rs, site_str) == {i \in 1..Len(rs) : Strip(rs[i].site) = site_str}

\* faulty variant of mask_any: the update goes on without a matching row
mask_any_unchecked(mask) == TRUE

\* line 135: mask.any()
mask_any(mask) == mask # {}

\* faulty variant of set_serial: the serial is written to every row
set_serial_all_rows(rs, site_str, new_serial) ==
    [i \in 1..Len(rs) |-> [rs[i] EXCEPT !.p2p = new_serial]]

\* line 137 (and lines 141-143): the serial of every matching row rewritten
set_serial(rs, site_str, new_serial) ==
    [i \in 1..Len(rs) |->
        IF Strip(rs[i].site) = site_str THEN [rs[i] EXCEPT !.p2p = new_serial]
        ELSE rs[i]]

\* faulty variant of invalidate: the entry is kept
invalidate_keeps(m, new_serial) == m

\* faulty variant of invalidate: every entry is dropped
invalidate_clears_all(m, new_serial) == EmptyMap

\* lines 145-146: the new serial's entry dropped from the map
invalidate(m, new_serial) == IF new_serial # << >> THEN MapPop(m, new_serial) ELSE m

\* line 147
invalidated_epoch == None

\* the payloads of /api/update-p2p the model sends
UpdateRequests ==
    { [site |-> << "A", " " >>, p2p |-> PyStr(<< "n", "a", "N" >>)],
      [site |-> << "B" >>, p2p |-> PyStr(<< " ", "2", ".", "0" >>)],
      [site |-> << "B", " " >>, p2p |-> PyStr(<< >>)],
      [site |-> << "C" >>, p2p |-> PyStr(<< "2" >>)] }

\* lines 135-136 and 214-215: no row of the site: the call returns False (a 404)
update_not_found(site, new_p2p) ==
    /\ LockFree("req")
    /\ ~mask_any(site_mask(df, Strip(site)))
    /\ UNCHANGED << rows, df, excel, online_map, last_scan_epoch, now, scan, bg_pc, api_pc, lock, io, nz >>

\* lines 137-139: to_excel raises after df was rewritten (a 500)
update_persist_error(site, new_p2p) ==
    /\ LockFree("req")
    /\ mask_any(site_mask(df, Strip(site)))
    /\ df' = set_serial(df, Strip(site), normalize_serial(new_p2p))
    /\ UNCHANGED << rows, excel, online_map, last_scan_epoch, now, scan, bg_pc, api_pc, lock, io, nz >>

\* lines 137-148 and 216: the call returns True
update_p2p(site, new_p2p) ==
    /\ LockFree("req")
    /\ mask_any(site_mask(df, Strip(site)))
    /\ df' = set_serial(df, Strip(site), normalize_serial(new_p2p))
    /\ excel' = df'
    /\ rows' = set_serial(rows, Strip(site), normalize_serial(new_p2p))
    /\ online_map' = invalidate(online_map, normalize_serial(new_p2p))
    /\ last_scan_epoch' = invalidated_epoch
    /\ UNCHANGED << now, scan, bg_pc, api_pc, lock, io, nz >>

\* ------------------------------------------------------- server: read routes
\* lines 187-190: the response is get_stats; nothing of the store changes
api_stats == LockFree("req") /\ UNCHANGED vars

\* lines 193-196: the response is list_by_status(status)
api_dvrs(status) ==
    /\ status \in {"all", "online", "offline"}
    /\ LockFree("req")
    /\ UNCHANGED vars

\* ------------------------------------------------------- server.api_refresh
\* line 222: the request enters scan_statuses
api_refresh_begin ==
    /\ api_pc = "idle"
    /\ scan_begin("api")
    /\ api_pc' = "refresh"
    /\ UNCHANGED << bg_pc, io, nz >>

\* line 223: the scan returned; the response is get_stats, read under the lock again
api_refresh_respond ==
    /\ api_pc = "refresh"
    /\ scan["api"].pc = "done"
    /\ LockFree("api")
    /\ scan' = [scan EXCEPT !["api"] = IdleScan]
    /\ api_pc' = "idle"
    /\ UNCHANGED << rows, df, excel, online_map, last_scan_epoch, now, bg_pc, lock, io, nz >>

\* line 222: the scan raised and the request fails
api_refresh_error ==
    /\ api_pc = "refresh"
    /\ scan["api"].pc = "raised"
    /\ scan' = [scan EXCEPT !["api"] = IdleScan]
    /\ api_pc' = "idle"
    /\ UNCHANGED << rows, df, excel, online_map, last_scan_epoch, now, bg_pc, lock, io, nz >>

\* ------------------------------------------------------ server._scanner_loop
\* faulty variant of after_scan_exception: the exception ends the thread
after_scan_exception_exits == "dead"

\* lines 170-171 and 176-178: where the loop goes on when a scan raised
after_scan_exception == "sleep"

\* line 169: the initial scan starts
bg_initial_scan ==
    /\ bg_pc = "initial"
    /\ scan_begin("bg")
    /\ UNCHANGED << bg_pc, api_pc, io, nz >>

\* lines 169-172: the initial scan returned
bg_initial_done ==
    /\ bg_pc = "initial"
    /\ scan["bg"].pc = "done"
    /\ bg_pc' = "sleep"
    /\ scan' = [scan EXCEPT !["bg"] = IdleScan]
    /\ UNCHANGED << rows, df, excel, online_map, last_scan_epoch, now, api_pc, lock, io, nz >>

\* lines 170-171: the initial scan raised
bg_initial_except ==
    /\ bg_pc = "initial"
    /\ scan["bg"].pc = "raised"
    /\ bg_pc' = after_scan_exception
    /\ scan' = [scan EXCEPT !["bg"] = IdleScan]
    /\ UNCHANGED << rows, df, excel, online_map, last_scan_epoch, now, api_pc, lock, io, nz >>

\* line 174: the sleep ends
bg_sleep ==
    /\ bg_pc = "sleep"
    /\ bg_pc' = "loop"
    /\ UNCHANGED << rows, df, excel, online_map, last_scan_epoch, now, scan, api_pc, lock, io, nz >>

\* line 175: a scan of the loop starts
bg_loop_scan ==
    /\ bg_pc = "loop"
    /\ scan_begin("bg")
    /\ UNCHANGED << bg_pc, api_pc, io, nz >>

\* lines 175 and 172: the scan returned, the loop goes round
bg_loop_done ==
    /\ bg_pc = "loop"
    /\ scan["bg"].pc = "done"
    /\ bg_pc' = "sleep"
    /\ scan' = [scan EXCEPT !["bg"] = IdleScan]
    /\ UNCHANGED << rows, df, excel, online_map, last_scan_epoch, now, api_pc, lock, io, nz >>

\* lines 176-178: the scan raised, the loop continues
bg_loop_except ==
    /\ bg_pc = "loop"
    /\ scan["bg"].pc = "raised"
    /\ bg_pc' = after_scan_exception
    /\ scan' = [scan EXCEPT !["bg"] = IdleScan]
    /\ UNCHANGED << rows, df, excel, online_map, last_scan_epoch, now, api_pc, lock, io, nz >>

\* ---------------------------------- check_online.is_online, request by request
\* the characters of the US strings the directory answers with
USChars == {"h", ":", "8", " "}

USValues ==
    {PyNone, PyInt(8080)} \cup {PyStr(s) : s \in StringsUpTo(USChars, MaxUSLen)}

DirData ==
    {PyNone, PyInt(7), EmptyDict,
     PyDict([k \in {"body"} |-> PyInt(1)]),
     PyDict([k \in {"body"} |-> EmptyDict])}
    \cup {PyDict([k \in {"body"} |-> PyDict([j \in {"US"} |-> u])]) : u \in USValues}

\* what client.read(return_error=True) may return for the directory request
DirResponses == [code : {200, 404}, data : DirData]

\* what p2p.read(return_error=True) may return for a probe or an info request
RelayResponses ==
    [code : {200, 500},
     data : {PyNone, EmptyDict, PyDict([k \in {"body"} |-> PyInt(1)])}]

ProbedSerials == { << "1" >>, << "2" >> }

IoStart(serial) ==
    [pc |-> "resolve", serial |-> serial, log |-> << >>, res |-> None,
     endpoint |-> None, res_probe |-> None, res_info |-> None,
     ret |-> None, exc |-> FALSE]

\* lines 13-14: the directory request is sent
resolve_send ==
    /\ io.pc = "resolve"
    /\ io' = [io EXCEPT !.pc = "resolve_read",
                        !.log = Append(@, << "send", "/online/p2psrv/", io.serial >>)]
    /\ UNCHANGED << storeVars, nz >>

\* faulty variant of resolve_read: the probe is sent whatever was resolved
resolve_read_no_check(res) ==
    /\ io.pc = "resolve_read"
    /\ io' = [io EXCEPT !.res = Some(res),
                        !.endpoint = resolve_p2psrv(res),
                        !.log = Append(@, << "read", "/online/p2psrv/", io.serial >>),
                        !.pc = "probe"]
    /\ UNCHANGED << storeVars, nz >>

\* lines 15-29 and 34-36: the directory's response is read and parsed
resolve_read(res) ==
    /\ io.pc = "resolve_read"
    /\ LET endpoint == resolve_p2psrv(res)
       IN  io' = [io EXCEPT !.res = Some(res),
                            !.endpoint = endpoint,
                            !.log = Append(@, << "read", "/online/p2psrv/", io.serial >>),
                            !.pc = IF endpoint = None THEN "returned" ELSE "probe",
                            !.ret = IF endpoint = None THEN Some(FALSE) ELSE None]
    /\ UNCHANGED << storeVars, nz >>

\* lines 38-41
probe_send ==
    /\ io.pc = "probe"
    /\ io' = [io EXCEPT !.pc = "probe_read",
                        !.log = Append(@, << "send", "/probe/device/", io.serial >>)]
    /\ UNCHANGED << storeVars, nz >>

\* line 42
probe_read(res) ==
    /\ io.pc = "probe_read"
    /\ io' = [io EXCEPT !.res_probe = Some(res),
                        !.log = Append(@, << "read", "/probe/device/", io.serial >>),
                        !.pc = "info"]
    /\ UNCHANGED << storeVars, nz >>

\* line 44
info_send ==
    /\ io.pc = "info"
    /\ io' = [io EXCEPT !.pc = "info_read",
                        !.log = Append(@, << "send", "/info/device/", io.serial >>)]
    /\ UNCHANGED << storeVars, nz >>

\* lines 45-50
info_read(res) ==
    /\ io.pc = "info_read"
    /\ io' = [io EXCEPT !.res_info = Some(res),
                        !.log = Append(@, << "read", "/info/device/", io.serial >>),
                        !.pc = "returned",
                        !.ret = Some(probe_verdict(io.res_probe[1], res))]
    /\ UNCHANGED << storeVars, nz >>

\* lines 52-53: where an exception raised inside the try block ends
except_clause == [pc |-> "returned", ret |-> Some(FALSE)]

\* the transport raises at the request or the read the call is at
transport_error ==
    /\ io.pc \in {"resolve", "resolve_read", "probe", "probe_read", "info", "info_read"}
    /\ io' = [io EXCEPT !.exc = TRUE, !.pc = except_clause.pc, !.ret = except_clause.ret]
    /\ UNCHANGED << storeVars, nz >>

\* ------------------------------- check_online._normalize_serial, call by call
\* the characters of the strings handed to _normalize_serial
NormChars == {"1", "0", ".", "n", "a", "N", " "}

\* the values a cell or a payload may hold
NormInputs ==
    {PyNone, PyNaN, PyFloat(0), PyFloat(1), PyFloat(10), PyInt(0), PyInt(10)}
    \cup {PyStr(s) : s \in StringsUpTo(NormChars, MaxSerialLen)}
    \cup {PyStr(<< "1", "2", "3", ".", "0" >>),
          PyStr(<< "N", "a", "N" >>),
          PyStr(<< " ", " ", "4", "2", " ", " " >>)}

NzStart(value) == [pc |-> "call", value |-> value, ret |-> None, again |-> None]

\* server.py lines 45 and 129: _normalize_serial is called on a cell or a payload
normalize_call ==
    /\ nz.pc = "call"
    /\ nz' = [nz EXCEPT !.pc = "returned", !.ret = Some(normalize_serial(nz.value))]
    /\ UNCHANGED << storeVars, io >>

\* server.py lines 139 and 45: the normalized serial is written to the file as
\* text and _normalize_serial is called on it when the file is loaded again
normalize_again ==
    /\ nz.pc = "returned"
    /\ nz' = [nz EXCEPT !.pc = "reloaded",
                        !.again = Some(normalize_serial(PyStr(nz.ret[1])))]
    /\ UNCHANGED << storeVars, io >>

\* ------------------------------------------------------------ specifications
\* lines 22-28 and 151-152: the store once the module is imported
StoreInit ==
    /\ df = load_excel(InitialTable)
    /\ rows = load_excel(InitialTable)
    /\ excel = load_excel(InitialTable)
    /\ online_map = EmptyMap
    /\ last_scan_epoch = None
    /\ now = 1
    /\ scan = [t \in Scanners |-> IdleScan]
    /\ bg_pc = "initial"
    /\ api_pc = "idle"
    /\ lock = None

Init ==
    /\ StoreInit
    /\ io = IoStart(<< "1" >>)
    /\ nz = NzStart(PyNone)

StatusFilters == {"all", "online", "offline"}

Next ==
    \/ bg_initial_scan
    \/ bg_initial_done
    \/ bg_initial_except
    \/ bg_sleep
    \/ bg_loop_scan
    \/ bg_loop_done
    \/ bg_loop_except
    \/ api_refresh_begin
    \/ api_refresh_respond
    \/ api_refresh_error
    \/ \E t \in Scanners : scan_submit(t)
    \/ \E t \in Scanners : scan_pool_error(t)
    \/ \E t \in Scanners : \E s \in DOMAIN scan[t].futures : worker_start(t, s)
    \/ \E t \in Scanners : \E s \in DOMAIN scan[t].futures : worker_return(t, s)
    \/ \E t \in Scanners : \E s \in DOMAIN scan[t].futures : worker_raise(t, s)
    \/ \E t \in Scanners : scan_commit(t)
    \/ \E u \in UpdateRequests : update_not_found(u.site, u.p2p)
    \/ \E u \in UpdateRequests : update_p2p(u.site, u.p2p)
    \/ api_stats
    \/ \E status \in StatusFilters : api_dvrs(status)

\* the DataStore under the scanner loop, one /api/refresh at a time, updates and
\* reads, with a file that can always be written
Spec == Init /\ [][Next]_vars


\* lines 57-77 and 166-178: the steps of the scanner thread, its pool and workers
BgStep ==
    \/ bg_initial_scan
    \/ bg_initial_done
    \/ bg_initial_except
    \/ bg_sleep
    \/ bg_loop_scan
    \/ bg_loop_done
    \/ bg_loop_except
    \/ scan_submit("bg")
    \/ scan_pool_error("bg")
    \/ \E s \in DOMAIN scan["bg"].futures : worker_start("bg", s)
    \/ \E s \in DOMAIN scan["bg"].futures : worker_return("bg", s)
    \/ \E s \in DOMAIN scan["bg"].futures : worker_raise("bg", s)
    \/ scan_commit("bg")

\* the same store with a scanner thread that is scheduled: the sleep ends, every
\* HTTP call is under a timeout, the lock is held for bounded sections only
SpecLive == Init /\ [][Next]_vars /\ WF_vars(BgStep)

OnlineInit ==
    /\ StoreInit
    /\ io \in {IoStart(s) : s \in ProbedSerials}
    /\ nz = NzStart(PyNone)

OnlineNext ==
    \/ resolve_send
    \/ \E res \in DirResponses : resolve_read(res)
    \/ probe_send
    \/ \E res \in RelayResponses : probe_read(res)
    \/ info_send
    \/ \E res \in RelayResponses : info_read(res)
    \/ transport_error

\* one is_online call against every response the directory and the relay may give
SpecOnline == OnlineInit /\ [][OnlineNext]_vars

\* no scan_statuses call is running
Quiescent == \A t \in Scanners : scan[t].pc = "idle"

QuietNext ==
    \/ bg_initial_scan
    \/ bg_initial_done
    \/ bg_initial_except
    \/ bg_sleep
    \/ bg_loop_scan
    \/ bg_loop_done
    \/ bg_loop_except
    \/ api_refresh_begin
    \/ api_refresh_respond
    \/ api_refresh_error
    \/ \E t \in Scanners : scan_submit(t)
    \/ \E t \in Scanners : scan_pool_error(t)
    \/ \E t \in Scanners : \E s \in DOMAIN scan[t].futures : worker_start(t, s)
    \/ \E t \in Scanners : \E s \in DOMAIN scan[t].futures : worker_return(t, s)
    \/ \E t \in Scanners : \E s \in DOMAIN scan[t].futures : worker_raise(t, s)
    \/ \E t \in Scanners : scan_commit(t)
    \/ Quiescent /\ \E u \in UpdateRequests : update_not_found(u.site, u.p2p)
    \/ Quiescent /\ \E u \in UpdateRequests : update_p2p(u.site, u.p2p)
    \/ api_stats
    \/ \E status \in StatusFilters : api_dvrs(status)

\* the store under clients that send no update while a scan is running
SpecQuiet == Init /\ [][QuietNext]_vars

PersistNext ==
    \/ QuietNext
    \/ Quiescent /\ \E u \in UpdateRequests : update_persist_error(u.site, u.p2p)

\* the same clients and a file whose writing may fail
SpecPersist == Init /\ [][PersistNext]_vars

NormalizeInit ==
    /\ StoreInit
    /\ io = IoStart(<< "1" >>)
    /\ nz \in {NzStart(v) : v \in NormInputs}

NormalizeNext ==
    \/ normalize_call
    \/ normalize_again

\* one _normalize_serial call on every value of a bounded set, and one more on
\* its result
SpecNormalize == NormalizeInit /\ [][NormalizeNext]_vars

\* ------------------------------------------------------------------ claims
RowIndexes == 1..Len(rows)

\* the serials the map holds as true
TrueSerials == {s \in DOMAIN online_map : s # << >> /\ online_map[s]}

\* the records whose serial the map holds as true
OnlineRecords == {i \in RowIndexes : rows[i].p2p \in TrueSerials}

\* C1: whatever refreshes, updates and reads have run, the stats getStats
\* returns have total = online + offline, and total is the number of records.
C1_StatsAddUp ==
    /\ get_stats.total = get_stats.online + get_stats.offline
    /\ get_stats.total = Cardinality(RowIndexes)

\* C1 witness: a scan in flight after an update, with records of both kinds
\* and a record without a serial.
C1_Witness ==
    /\ get_stats.online > 0
    /\ get_stats.offline > 0
    /\ last_scan_epoch = None
    /\ \E i \in RowIndexes : rows[i].p2p = << >>
    /\ \E t \in Scanners : scan[t].pc = "collect"

\* C2 as claimed: the online count of getStats is the number of non-empty
\* serials the LivenessMap holds as true.
C2_OnlineCountsSerials == get_stats.online = Cardinality(TrueSerials)

\* C2 as amended: the online count of getStats is the number of records whose
\* serial is non-empty and held as true by the LivenessMap; records that share
\* a serial count once each, and a true entry no record carries counts for none.
C2_OnlineCountsRecords == get_stats.online = Cardinality(OnlineRecords)

\* C2 witness: two records share a serial held as true, and the map holds
\* another true serial that no record carries any more.
C2_Witness ==
    /\ \E i, j \in RowIndexes : i # j /\ rows[i].p2p = rows[j].p2p /\ i \in OnlineRecords
    /\ \E s \in TrueSerials : \A i \in RowIndexes : rows[i].p2p # s

\* a scan whose every future has been collected into its own map
CompleteScan(t) ==
    /\ scan[t].pc = "collect"
    /\ AllCollected(t)
    /\ DOMAIN scan[t].online_map = scan[t].unique_serials

\* C3: the LivenessMap changes only by being replaced with the complete
\* result of one scan or by losing one key; no step writes a single key of a
\* scan into it or stores a scan's map before every future is collected.
C3_MapReplacedWhole ==
    [][ \/ online_map' = online_map
        \/ \E t \in Scanners : CompleteScan(t) /\ online_map' = scan[t].online_map
        \/ \E k \in DOMAIN online_map : online_map' = MapPop(online_map, k)
      ]_vars

\* C3 witness: both scans hold a partly filled map of their own while the
\* cache serves the complete map of an earlier scan.
C3_Witness ==
    /\ \A t \in Scanners :
         /\ scan[t].pc = "collect"
         /\ DOMAIN scan[t].online_map # {}
         /\ DOMAIN scan[t].online_map # scan[t].unique_serials
    /\ DOMAIN online_map = {<< "1" >>, << "2" >>}
    /\ last_scan_epoch # None

\* the US field of a directory response, PyNone when the response has none
USOf(res) ==
    IF res.data.t = "dict" /\ "body" \in DOMAIN res.data.d
       /\ res.data.d["body"].t = "dict" /\ "US" \in DOMAIN res.data.d["body"].d
    THEN res.data.d["body"].d["US"]
    ELSE PyNone

\* a US string that is not "<host>:<port>" with a host and an integer port
MalformedUS(us) ==
    /\ us.t = "str"
    /\ \/ ~Contains(us.s, ":")
       \/ SplitOnce(us.s, ":")[1] = << >>
       \/ ~IsIntLiteral(SplitOnce(us.s, ":")[2])

\* C4: a directory response with code < 400 whose US value is malformed
\* (no colon, a port that is no integer, or no host before the colon) resolves
\* to the empty option.
C4_MalformedUnresolved ==
    (io.res # None /\ io.res[1].code < 400 /\ MalformedUS(USOf(io.res[1])))
        => io.endpoint = None

\* C5: is_online returns True exactly when the directory resolved, the probe
\* and the info response both have code < 400 and the info response carries
\* data; it returns False otherwise, also when the transport raised, and the
\* call always ends by returning.
C5_OnlineIff ==
    /\ io.pc \in {"resolve", "resolve_read", "probe", "probe_read", "info",
                  "info_read", "returned"}
    /\ io.pc = "returned" =>
         /\ io.ret \in {Some(TRUE), Some(FALSE)}
         /\ io.ret = Some(TRUE) <=>
              /\ ~io.exc
              /\ io.endpoint # None
              /\ io.res_probe # None /\ io.res_probe[1].code < 400
              /\ io.res_info # None /\ io.res_info[1].code < 400
              /\ io.res_info[1].data \notin {PyNone, EmptyDict}

\* C5 witness: a call that returned True after all three reads.
C5_Witness ==
    /\ io.pc = "returned"
    /\ io.ret = Some(TRUE)
    /\ Len(io.log) = 6

\* the non-empty serials of the records, without repetition
DedupedSerials == {rows[i].p2p : i \in RowIndexes} \ {<< >>}

\* the futures of a scan that as_completed has handed over
Collected(t) ==
    {s \in DOMAIN scan[t].futures : scan[t].futures[s] \in {"returned", "raised"}}

\* what a scan holds while it collects: a boolean for each collected serial
\* of its snapshot and for no other, False where the call raised
ScanMapSound(t) ==
    /\ << >> \notin scan[t].unique_serials
    /\ DOMAIN scan[t].futures = scan[t].unique_serials
    /\ DOMAIN scan[t].online_map = Collected(t)
    /\ \A s \in Collected(t) :
         /\ scan[t].online_map[s] \in BOOLEAN
         /\ scan[t].futures[s] = "raised" => scan[t].online_map[s] = FALSE

\* C6: a scan snapshots exactly the deduplicated non-empty serials of the
\* records (none for an empty set), every collected future adds a boolean for
\* its serial and changes no other serial's value, a future that raised adds
\* False, and the map the scan commits has exactly the snapshot's keys.
C6_ScanMap ==
    [][ \A t \in Scanners :
          /\ (scan[t].pc = "idle" /\ scan'[t].pc \in {"pool", "collect"})
                => scan'[t].unique_serials = DedupedSerials
          /\ (scan[t].pc = "pool" /\ scan'[t].pc = "collect")
                => scan'[t].unique_serials = scan[t].unique_serials
          /\ scan'[t].pc = "collect" => ScanMapSound(t)'
          /\ (scan[t].pc = "collect" /\ scan'[t].pc = "collect")
                => /\ scan'[t].unique_serials = scan[t].unique_serials
                   /\ \A s \in DOMAIN scan[t].online_map :
                        /\ s \in DOMAIN scan'[t].online_map
                        /\ scan'[t].online_map[s] = scan[t].online_map[s]
          /\ (scan[t].pc = "collect" /\ scan'[t].pc = "done")
                => /\ DOMAIN online_map' = scan[t].unique_serials
                   /\ \A s \in DOMAIN online_map' : online_map'[s] \in BOOLEAN
      ]_vars

\* C6 witness: a scan of two serials is complete; one call raised and reads
\* False, the other returned True; the snapshot came from records that hold a
\* serial twice and that now hold no serial at all.
C6_Witness ==
    \E t \in Scanners :
      /\ CompleteScan(t)
      /\ scan[t].unique_serials = {<< "1" >>, << "2" >>}
      /\ \E s1, s2 \in scan[t].unique_serials :
           /\ scan[t].futures[s1] = "raised" /\ ~scan[t].online_map[s1]
           /\ scan[t].futures[s2] = "returned" /\ scan[t].online_map[s2]
      /\ DedupedSerials = {}

\* a step in which scan t commits
Commits(t) == CompleteScan(t) /\ scan'[t].pc = "done"

\* a step in which update request u returns true and changes the state (the
\* frame is tested first)
Updates(u) ==
    /\ UNCHANGED << now, scan, bg_pc, api_pc >>
    /\ vars' # vars
    /\ update_p2p(u.site, u.p2p)

\* C7: when updateSerial(site, raw) returns true, every record of the trimmed
\* site carries normalize(raw), the LivenessMap has no entry for normalize(raw)
\* and serves those records as offline, and lastUpdated is None; lastUpdated
\* leaves None only when a scan commits.
C7_UpdateInvalidates ==
    [][ /\ \A u \in UpdateRequests :
             Updates(u) =>
               LET new == normalize_serial(u.p2p)
               IN  /\ u.p2p = PyStr(<< " ", "2", ".", "0" >>) => new = << "2" >>
                   /\ \A i \in 1..Len(rows') :
                        Strip(rows'[i].site) = Strip(u.site) => rows'[i].p2p = new
                   /\ new \notin DOMAIN online_map'
                   /\ \A i \in 1..Len(rows') :
                        rows'[i].p2p = new => ~is_online_row(rows'[i], online_map')
                   /\ last_scan_epoch' = None
        /\ (last_scan_epoch = None /\ last_scan_epoch' # None)
             => \E t \in Scanners : Commits(t)
      ]_vars

\* C7 witness: both records of site B carry "2" after an update, the map holds
\* the true entry of another serial and none for "2", and lastUpdated is None.
C7_Witness ==
    /\ last_scan_epoch = None
    /\ rows[2].p2p = << "2" >> /\ rows[3].p2p = << "2" >>
    /\ << "2" >> \notin DOMAIN online_map
    /\ << "1" >> \in DOMAIN online_map /\ online_map[<< "1" >>]

\* C8 as claimed: whenever lastUpdated is None, getStats reports online = 0
\* and listByStatus("online") is empty.
C8_NoneServesAllOffline ==
    last_scan_epoch = None =>
        get_stats.online = 0 /\ list_by_status("online") = << >>

\* C8 as amended: until the first scan commits every device is served as
\* offline (the online count is 0 at start and leaves 0 only when a scan
\* commits); an updateSerial sets lastUpdated to None and forces offline the
\* records that carry the new serial, and every other record keeps the status
\* of the last scan.
C8_UpdateForcesOnlyNewSerial ==
    /\ get_stats.online = 0
    /\ [][ /\ (get_stats.online = 0 /\ get_stats'.online > 0)
                => \E t \in Scanners : Commits(t)
           /\ \A u \in UpdateRequests :
                Updates(u) =>
                  /\ last_scan_epoch' = None
                  /\ \A i \in 1..Len(rows') :
                       is_online_row(rows'[i], online_map')
                         <=> /\ rows'[i].p2p # normalize_serial(u.p2p)
                             /\ is_online_row(rows'[i], online_map)
         ]_vars

\* C8 witness: lastUpdated is None after an update and a record is still
\* served as online.
C8_Witness ==
    /\ last_scan_epoch = None
    /\ get_stats.online > 0
    /\ Len(list_by_status("online")) > 0

\* C10: a commit stores exactly the committing scan's complete map and the
\* time of the commit, whatever the cache held from a scan that committed
\* before it, and leaves the other scan's own map alone.
C10_LastWriterWins ==
    [][ \A t \in Scanners :
          Commits(t) =>
            /\ online_map' = scan[t].online_map
            /\ last_scan_epoch' = Some(now)
            /\ \A u \in Scanners \ {t} : scan'[u] = scan[u]
      ]_vars

\* C10 witness: the two refreshes are in progress at once: the on-demand one
\* has committed and not yet answered, the cache holds its map, and the
\* background one is complete with a different value for a serial both scanned.
C10_Witness ==
    /\ scan["api"].pc = "done"
    /\ CompleteScan("bg")
    /\ last_scan_epoch # None
    /\ DOMAIN online_map = {<< "1" >>, << "2" >>}
    /\ DOMAIN scan["bg"].online_map = {<< "1" >>, << "2" >>}
    /\ \E s \in DOMAIN online_map : scan["bg"].online_map[s] # online_map[s]

\* C9: the scanner thread outlives every scan that raises: it is never ended,
\* after a raised scan it sleeps and scans again, and under a fair schedule
\* the loop starts scans infinitely often.
C9_LoopSurvives ==
    /\ [](bg_pc \in {"initial", "sleep", "loop"})
    /\ [][ (bg_pc \in {"initial", "loop"} /\ scan["bg"].pc = "raised"
               /\ scan'["bg"] # scan["bg"]) => bg_pc' = "sleep" ]_vars
    /\ []<><<bg_loop_scan>>_vars

\* C9 witness: a scan of the loop has raised inside the scanner thread.
C9_Witness ==
    /\ bg_pc = "loop"
    /\ scan["bg"].pc = "raised"

\* C11: while a worker of a scan has an is_online call in flight the scanning
\* thread does not hold the lock and nobody else does: the lock is to be had
\* by a request thread, which is all a read or an updateSerial waits for.
C11_LockFreeDuringCalls ==
    \A t \in Scanners :
        Running(t) # {} =>
            /\ lock # Some(t)
            /\ lock = None
            /\ LockFree("req")

\* C11 witness: a call of the background scan is in flight and the records no
\* longer carry the serials of its snapshot: an update ran during the scan.
C11_Witness ==
    /\ Running("bg") # {}
    /\ scan["bg"].unique_serials # unique_serials_of(rows)
    /\ lock = None

\* scan t recorded, for every serial the cache's map also holds, the value the
\* cache holds
SameOutcomes(t) ==
    \A s \in DOMAIN scan[t].online_map \cap DOMAIN online_map :
        scan[t].online_map[s] = online_map[s]

\* C12: when a refresh commits after an earlier one, with no update since the
\* earlier one began and the same is_online outcome for every serial, the
\* stats after it agree with the stats before it on total, online and offline.
C12_RefreshIdempotent ==
    [][ \A t \in Scanners :
          (Commits(t) /\ last_scan_epoch # None /\ SameOutcomes(t)) =>
            /\ get_stats'.total = get_stats.total
            /\ get_stats'.online = get_stats.online
            /\ get_stats'.offline = get_stats.offline
      ]_vars

\* C12 witness: after a first refresh has committed, a second one is complete
\* with the same outcomes, and records of both kinds are served.
C12_Witness ==
    /\ last_scan_epoch # None
    /\ CompleteScan("api")
    /\ SameOutcomes("api")
    /\ DOMAIN online_map = {<< "1" >>, << "2" >>}
    /\ get_stats.online > 0
    /\ get_stats.offline > 0

\* the states a future goes through, in order
FutureRank(f) ==
    CASE f = "queued" -> 0
      [] f = "running" -> 1
      [] f \in {"returned", "raised"} -> 2

\* C13: a scan never has more than max_workers is_online calls in flight; it
\* holds one future per serial of its snapshot, a future starts running only
\* from the queue, never runs again once done, and the scan commits only when
\* every serial's call has run.
C13_BoundedPool ==
    /\ [](\A t \in Scanners :
            /\ Cardinality(Running(t)) <= MaxWorkers
            /\ DOMAIN scan[t].futures \in {{}, scan[t].unique_serials})
    /\ [][ \A t \in Scanners :
             /\ \A s \in DOMAIN scan[t].futures \cap DOMAIN scan'[t].futures :
                  /\ FutureRank(scan'[t].futures[s]) >= FutureRank(scan[t].futures[s])
                  /\ FutureRank(scan'[t].futures[s]) <= FutureRank(scan[t].futures[s]) + 1
                  /\ FutureRank(scan[t].futures[s]) = 2
                       => scan'[t].futures[s] = scan[t].futures[s]
             /\ Commits(t) =>
                  /\ DOMAIN scan[t].futures = scan[t].unique_serials
                  /\ \A s \in scan[t].unique_serials :
                       FutureRank(scan[t].futures[s]) = 2
         ]_vars

\* C13 witness: max_workers calls of a scan are in flight and another serial of
\* the same scan waits in the queue.
C13_Witness ==
    \E t \in Scanners :
        /\ Cardinality(Running(t)) = MaxWorkers
        /\ \E s \in DOMAIN scan[t].futures : scan[t].futures[s] = "queued"

\* the requests and reads of a call for a serial that goes through
FullLog(serial) ==
    << << "send", "/online/p2psrv/", serial >>, << "read", "/online/p2psrv/", serial >>,
       << "send", "/probe/device/", serial >>, << "read", "/probe/device/", serial >>,
       << "send", "/info/device/", serial >>, << "read", "/info/device/", serial >> >>

\* C14: the requests of one is_online call go out in the order directory,
\* probe, info, each one read before the next is sent, every request is sent
\* and read at most once, and nothing is sent to the relay unless the
\* directory's response was read and resolved to an endpoint.
C14_RequestOrder ==
    /\ Len(io.log) <= 6
    /\ io.log = SubSeq(FullLog(io.serial), 1, Len(io.log))
    /\ Len(io.log) > 2 => (io.res # None /\ io.endpoint # None)
    /\ Len(io.log) > 4 => io.res_probe # None
    /\ io.pc \in {"resolve_read", "probe_read", "info_read"} <=>
         (Len(io.log) % 2 = 1 /\ io.pc # "returned")

\* C14 witness: a call that sent and read all three requests, and whose probe
\* was refused.
C14_Witness ==
    /\ io.pc = "returned"
    /\ io.log = FullLog(io.serial)
    /\ io.res_probe[1].code >= 400

\* an update request in any of its outcomes: not found, written, write failed
UpdateOutcome(u) ==
    \/ update_not_found(u.site, u.p2p)
    \/ update_p2p(u.site, u.p2p)
    \/ update_persist_error(u.site, u.p2p)

\* C15: for a site that no record carries (sites compared trimmed) the only
\* outcome of updateSerial is the one that returns False, and no outcome
\* changes the records, the table, the file, the LivenessMap or the timestamp.
C15_NotFoundChangesNothing ==
    [](\A u \in UpdateRequests :
        (\A i \in RowIndexes : Strip(rows[i].site) # Strip(u.site)) =>
            /\ ENABLED update_not_found(u.site, u.p2p)
            /\ ~ENABLED update_p2p(u.site, u.p2p)
            /\ ~ENABLED update_persist_error(u.site, u.p2p)
            /\ ~ENABLED (/\ UpdateOutcome(u)
                         /\ << rows, df, excel, online_map, last_scan_epoch >>'
                              # << rows, df, excel, online_map, last_scan_epoch >>))

\* C15 witness: the serial of the request for the unknown site is held as
\* online by a scan that has completed: a wrong update would drop both.
C15_Witness ==
    /\ \E u \in UpdateRequests :
         /\ \A i \in RowIndexes : Strip(rows[i].site) # Strip(u.site)
         /\ normalize_serial(u.p2p) \in TrueSerials
    /\ last_scan_epoch # None

\* the rule chain, stated on the text: the part of s between its first and its
\* last character that is no blank
RefTrim(s) ==
    LET idx == {i \in 1..Len(s) : s[i] # " "}
    IN  IF idx = {} THEN << >>
        ELSE SubSeq(s, CHOOSE i \in idx : \A j \in idx : i <= j,
                       CHOOSE i \in idx : \A j \in idx : i >= j)

\* the literal "nan" in any case
RefIsNanText(s) ==
    /\ Len(s) = 3
    /\ s[1] \in {"n", "N"} /\ s[2] \in {"a", "A"} /\ s[3] \in {"n", "N"}

RefHasSuffix(s) == Len(s) >= 2 /\ s[Len(s) - 1] = "." /\ s[Len(s)] = "0"

RefNormalize(v) ==
    IF v = PyNone \/ v = PyNaN THEN << >>
    ELSE LET s == RefTrim(PyStrOf(v))
         IN  IF RefIsNanText(s) THEN << >>
             ELSE IF RefHasSuffix(s) THEN [i \in 1..(Len(s) - 2) |-> s[i]]
             ELSE s

\* C16: for every value of the bounded set, what _normalize_serial returns is
\* a string, the rule chain's result: "" for None and NaN, else the
\* trimmed text, "" for "nan" in any case, one trailing ".0" removed;
\* "123.0" gives "123", "NaN" gives "", "  42  " gives "42".
C16_NormalizeRules ==
    /\ nz.pc \in {"call", "returned", "reloaded"}
    /\ nz.pc # "call" =>
         /\ nz.ret = Some(RefNormalize(nz.value))
         /\ nz.value \in {PyNone, PyNaN} => nz.ret = Some(<< >>)
         /\ nz.value = PyStr(<< "1", "2", "3", ".", "0" >>)
              => nz.ret = Some(<< "1", "2", "3" >>)
         /\ nz.value = PyStr(<< "N", "a", "N" >>) => nz.ret = Some(<< >>)
         /\ nz.value = PyStr(<< " ", " ", "4", "2", " ", " " >>)
              => nz.ret = Some(<< "4", "2" >>)
         /\ nz.value = PyFloat(10) => nz.ret = Some(<< "1", "0" >>)
         /\ nz.value = PyStr(<< "1", ".", "0", ".", "0" >>)
              => nz.ret = Some(<< "1", ".", "0" >>)

\* C16 witness: the call on "123.0" has returned "123".
C16_Witness ==
    /\ nz.pc = "returned"
    /\ nz.value = PyStr(<< "1", "2", "3", ".", "0" >>)
    /\ nz.ret = Some(<< "1", "2", "3" >>)

\* C20 as claimed: a second _normalize_serial on the result of the first
\* returns the same serial, for every value of the bounded set.
C20_Idempotent ==
    nz.pc = "reloaded" => nz.again = nz.ret

\* C20 as amended: a second _normalize_serial returns the same serial exactly
\* when the first result neither ends in ".0", nor is "nan" in any case, nor
\* begins or ends with a blank; it is so for every value whose trimmed text
\* does not end in ".0".
C20_IdempotentUnlessSuffix ==
    nz.pc = "reloaded" =>
        /\ nz.again = nz.ret <=>
             /\ ~RefHasSuffix(nz.ret[1])
             /\ ~RefIsNanText(nz.ret[1])
             /\ RefTrim(nz.ret[1]) = nz.ret[1]
        /\ (nz.value \notin {PyNone, PyNaN} /\ ~RefHasSuffix(RefTrim(PyStrOf(nz.value))))
             => nz.again = nz.ret

\* C20 witness: "1.0.0" was normalized to "1.0" and then to "1".
C20_Witness ==
    /\ nz.pc = "reloaded"
    /\ nz.value = PyStr(<< "1", ".", "0", ".", "0" >>)
    /\ nz.ret = Some(<< "1", ".", "0" >>)
    /\ nz.again = Some(<< "1" >>)

\* C17: no step changes the number of records or a record's site or store
\* name; a step of a scan changes no record; a record changes only in an
\* update that returns true, only in its serial, and only if its trimmed site
\* is the request's.
C17_RecordsFrame ==
    [][ /\ Len(rows') = Len(rows)
        /\ \A i \in RowIndexes :
             /\ rows'[i].site = rows[i].site
             /\ rows'[i].store = rows[i].store
        /\ scan' # scan => rows' = rows
        /\ rows' # rows =>
             \E u \in UpdateRequests :
                 /\ Updates(u)
                 /\ \A i \in RowIndexes :
                      rows'[i] # rows[i] => Strip(rows[i].site) = Strip(u.site)
      ]_vars

\* C17 witness: after updates and a scan the records differ from the loaded
\* ones, and a record still carries the serial it was loaded with.
C17_Witness ==
    /\ last_scan_epoch # None
    /\ rows # load_excel(InitialTable)
    /\ rows[2].p2p # load_excel(InitialTable)[2].p2p
    /\ rows[1] = load_excel(InitialTable)[1]

\* C18: whenever lastUpdated is not None, every non-empty serial of a record
\* is a key of the LivenessMap.
C18_PublishedScanCovers ==
    last_scan_epoch # None =>
        \A i \in RowIndexes :
            rows[i].p2p # << >> => rows[i].p2p \in DOMAIN online_map

\* C19: outside update_p2p the table df and the served records hold the same
\* serial in every row, also after an update whose write to the file failed.
C19_TableMatchesRecords ==
    /\ Len(df) = Len(rows)
    /\ \A i \in RowIndexes : df[i].p2p = rows[i].p2p

=============================================================================
